---- MODULE Spec2Model ----
(***************************************************************************)
(* Model of the transfer-hook program in src/src/lib.rs: the one-time      *)
(* creation of the ExtraAccountMetaList account, the native transfer_hook  *)
(* instruction, and the fallback instruction that checks the instructions  *)
(* sysvar, unpacks the interface payload and re-dispatches to the native   *)
(* handler.                                                                *)
(***************************************************************************)
EXTENDS Integers, Sequences, FiniteSets, TLC

\* ------------------------------------------------------------------ bounds
\* longest transaction (number of top-level instructions) considered
MaxTxLen == 2
\* deepest chain of programs on the invoke stack above the hook program
MaxDepth == 2

\* -------------------------------------------------------------- identities
\* declare_id!: the hook program itself
ID == "B2tN85yQ3ta8965WYns4DnitH9YJ9JnBsPb1dF1ghb15"

TOKEN_2022_PROGRAM_ID == "TokenzQdBNbLqP5VEhdkAS6EPFLC1PHnBqCXEpPxuEb"

TOKEN_PROGRAM_ID == "TokenkegQfeZyiNwAJbNbGKPFXCWuBvf9Ss623VQ5DA"

ASSOCIATED_TOKEN_PROGRAM_ID == "ATokenGPvbdGVxr1b2hvZbsiqW5xWH25efTNsLJA8knL"

SYSTEM_PROGRAM_ID == "11111111111111111111111111111111"

\* solana_program::sysvar::instructions::ID
INSTRUCTIONS_SYSVAR_ID == "Sysvar1nstructions1111111111111111111111111"

\* an arbitrary third-party program
THIRD_PARTY_PROGRAM == "ThirdPartyProgram"

\* an account a caller controls and passes in place of the instructions sysvar
FORGED_SYSVAR == "ForgedInstructions"

\* programs that can appear as a top-level instruction of a transaction
ProgramIds == {ID, TOKEN_2022_PROGRAM_ID, THIRD_PARTY_PROGRAM}

\* programs that can be on the invoke stack above the hook program
Callers == {TOKEN_2022_PROGRAM_ID, THIRD_PARTY_PROGRAM}

\* --------------------------------------------------------- byte encodings
\* a u64 is written as four 16-bit words, most significant first
U64Words == 4

WordBase == 65536

ByteBase == 256

\* u64::to_le_bytes
to_le_bytes(a) ==
    << a[4] % ByteBase, a[4] \div ByteBase, a[3] % ByteBase, a[3] \div ByteBase,
       a[2] % ByteBase, a[2] \div ByteBase, a[1] % ByteBase, a[1] \div ByteBase >>

\* u64::from_le_bytes on an 8-byte slice
from_le_bytes(b) ==
    << b[7] + ByteBase * b[8], b[5] + ByteBase * b[6],
       b[3] + ByteBase * b[4], b[1] + ByteBase * b[2] >>

\* ArrayDiscriminator::LENGTH, also the length of an Anchor sighash
DISCRIMINATOR_LENGTH == 8

\* ExecuteInstruction::SPL_DISCRIMINATOR_SLICE
EXECUTE_DISCRIMINATOR == <<105, 37, 101, 197, 75, 251, 102, 26>>

\* InitializeExtraAccountMetaListInstruction::SPL_DISCRIMINATOR_SLICE
INITIALIZE_DISCRIMINATOR == <<43, 34, 13, 49, 167, 88, 235, 235>>

\* UpdateExtraAccountMetaListInstruction::SPL_DISCRIMINATOR_SLICE
UPDATE_DISCRIMINATOR == <<157, 105, 42, 146, 102, 85, 241, 174>>

\* sha256("global:transfer_hook")[..8]
TRANSFER_HOOK_SIGHASH == <<220, 57, 220, 152, 126, 125, 97, 168>>

\* sha256("global:initialize_extra_account_meta_list")[..8]
INITIALIZE_SIGHASH == <<92, 197, 174, 197, 41, 124, 19, 3>>

\* a tag the interface does not define
UNKNOWN_DISCRIMINATOR == <<1, 2, 3, 4, 5, 6, 7, 8>>

\* PodSlice length prefix
LENGTH_SIZE == 4

Take(s, n) == SubSeq(s, 1, n)

Drop(s, n) == SubSeq(s, n + 1, Len(s))

\* ------------------------------------------------------ accounts and keys
Mints == {"mintA", "mintB"}

Wallets == {"alice", "bob"}

TokenAccounts == {"aliceTokenA", "bobTokenA", "aliceTokenB"}

\* spl_token_2022::state::Account of each token account: its mint and owner
TokenState(key) ==
    CASE key = "aliceTokenA" -> [mint |-> "mintA", owner |-> "alice"]
      [] key = "bobTokenA"   -> [mint |-> "mintA", owner |-> "bob"]
      [] key = "aliceTokenB" -> [mint |-> "mintB", owner |-> "alice"]
      [] OTHER               -> [mint |-> "none", owner |-> "none"]

\* the program that owns an account that is not created by this program
StaticOwner(key) ==
    CASE key \in TokenAccounts \cup Mints -> TOKEN_2022_PROGRAM_ID
      [] key = FORGED_SYSVAR              -> THIRD_PARTY_PROGRAM
      [] key = INSTRUCTIONS_SYSVAR_ID     -> "Sysvar1111111111111111111111111111111111111"
      [] OTHER                            -> SYSTEM_PROGRAM_ID

\* seeds = [b"extra-account-metas", mint.key().as_ref()]
SEED_PREFIX == "extra-account-metas"

\* the bump find_program_address settles on for a mint
CanonicalBump(mint) == IF mint = "mintA" THEN 255 ELSE 254

\* Pubkey::create_program_address(seeds ++ [bump], program_id); only the
\* canonical bump of a seed gives an address here
create_program_address(prefix, mint, bump, program_id) ==
    IF bump = CanonicalBump(mint) /\ program_id = ID
    THEN prefix \o "/" \o mint
    ELSE "offcurve-miss/" \o mint

\* Pubkey::find_program_address(seeds, program_id)
find_program_address(prefix, mint, program_id) ==
    [address |-> create_program_address(prefix, mint, CanonicalBump(mint), program_id),
     bump |-> CanonicalBump(mint)]

\* the descriptor address of a mint
MetaListAddress(mint) == find_program_address(SEED_PREFIX, mint, ID).address

\* AccountMeta of an instruction: key and the two privilege flags
Meta(key, signer, writable) ==
    [key |-> key, is_signer |-> signer, is_writable |-> writable]

Readonly(key) == Meta(key, FALSE, FALSE)

\* ------------------------------------------------- transactions and calls
\* the top-level instructions of a transaction, by program id
Logs == UNION {[1..n -> ProgramIds] : n \in 1..MaxTxLen}

\* the programs on the invoke stack above the hook program, top-level first
Chains == UNION {[1..n -> Callers] : n \in 0..MaxDepth}

\* a call of the hook program inside a transaction: the instructions sysvar
\* holds `log` and the index `cur` of the executing top-level instruction;
\* the top of the chain is that instruction, and an empty chain means the
\* hook program is itself the top-level instruction
TxContexts ==
    {t \in [log : Logs, cur : 0..(MaxTxLen - 1), chain : Chains] :
        /\ t.cur < Len(t.log)
        /\ IF t.chain = <<>> THEN t.log[t.cur + 1] = ID
                             ELSE t.log[t.cur + 1] = t.chain[1]}

\* the program that invoked the hook program ("none" for a top-level call)
ImmediateCaller(t) == IF t.chain = <<>> THEN "none" ELSE t.chain[Len(t.chain)]

\* what a forged account claims to be the instructions sysvar's content
ForgedSysvarData == [log |-> <<TOKEN_2022_PROGRAM_ID, TOKEN_2022_PROGRAM_ID>>, cur |-> 1]

\* the data of the account passed as the instructions sysvar
SysvarData(t, key) ==
    IF key = INSTRUCTIONS_SYSVAR_ID THEN [log |-> t.log, cur |-> t.cur]
                                    ELSE ForgedSysvarData

\* amounts on the wire, little-endian: 500, 1000, 0, 2^64-1 and a value
\* with eight different bytes
AmountBytes ==
    { <<244, 1, 0, 0, 0, 0, 0, 0>>, <<232, 3, 0, 0, 0, 0, 0, 0>>,
      <<0, 0, 0, 0, 0, 0, 0, 0>>, <<255, 255, 255, 255, 255, 255, 255, 255>>,
      <<1, 2, 3, 4, 5, 6, 7, 8>> }

\* instruction data a caller may send
Payloads ==
    {EXECUTE_DISCRIMINATOR \o b : b \in AmountBytes}
    \cup {TRANSFER_HOOK_SIGHASH \o b : b \in {<<244, 1, 0, 0, 0, 0, 0, 0>>}}
    \cup { EXECUTE_DISCRIMINATOR \o <<244, 1, 0, 0>>,
           INITIALIZE_DISCRIMINATOR \o <<0, 0, 0, 0>>,
           INITIALIZE_DISCRIMINATOR \o <<1, 0>>,
           UPDATE_DISCRIMINATOR \o <<0, 0, 0, 0>>,
           UNKNOWN_DISCRIMINATOR \o <<244, 1, 0, 0, 0, 0, 0, 0>>,
           INITIALIZE_SIGHASH,
           <<105, 37, 101>> }

\* the accounts of a hook call: source, mint, destination, owner, the
\* descriptor and whatever follows
HookAccounts(src, mint, dst, owner, meta, tail) ==
    <<Readonly(src), Readonly(mint), Readonly(dst), Readonly(owner), Readonly(meta)>>
        \o [i \in 1..Len(tail) |-> Readonly(tail[i])]

HookAccountLists ==
    { HookAccounts("aliceTokenA", "mintA", "bobTokenA", "alice",
                   MetaListAddress("mintA"), <<INSTRUCTIONS_SYSVAR_ID>>),
      HookAccounts("aliceTokenB", "mintB", "aliceTokenB", "alice",
                   MetaListAddress("mintB"), <<INSTRUCTIONS_SYSVAR_ID>>),
      HookAccounts("aliceTokenB", "mintA", "bobTokenA", "alice",
                   MetaListAddress("mintA"), <<INSTRUCTIONS_SYSVAR_ID>>),
      HookAccounts("aliceTokenA", "mintA", "aliceTokenB", "alice",
                   MetaListAddress("mintA"), <<INSTRUCTIONS_SYSVAR_ID>>),
      HookAccounts("aliceTokenA", "mintA", "bobTokenA", "bob",
                   MetaListAddress("mintA"), <<INSTRUCTIONS_SYSVAR_ID>>),
      HookAccounts("aliceTokenA", "mintA", "bobTokenA", "alice",
                   MetaListAddress("mintB"), <<INSTRUCTIONS_SYSVAR_ID>>),
      HookAccounts("aliceTokenA", "mintA", "bobTokenA", "alice",
                   MetaListAddress("mintA"), <<FORGED_SYSVAR>>),
      HookAccounts("aliceTokenA", "mintA", "bobTokenA", "alice",
                   MetaListAddress("mintA"), <<INSTRUCTIONS_SYSVAR_ID, FORGED_SYSVAR>>),
      <<Readonly(INSTRUCTIONS_SYSVAR_ID)>>,
      <<>> }

\* the accounts of an initialization: payer, descriptor, mint and programs
InitAccounts(payer, signs, meta, mint) ==
    << Meta(payer, signs, TRUE), Meta(meta, FALSE, TRUE), Readonly(mint),
       Readonly(TOKEN_2022_PROGRAM_ID), Readonly(ASSOCIATED_TOKEN_PROGRAM_ID),
       Readonly(SYSTEM_PROGRAM_ID) >>

InitAccountLists ==
    { InitAccounts("alice", TRUE, MetaListAddress("mintA"), "mintA"),
      InitAccounts("alice", TRUE, MetaListAddress("mintB"), "mintB"),
      InitAccounts("bob", TRUE, MetaListAddress("mintA"), "mintA"),
      InitAccounts("alice", TRUE, MetaListAddress("mintB"), "mintA"),
      InitAccounts("alice", FALSE, MetaListAddress("mintA"), "mintA") }

AccountLists == HookAccountLists \cup InitAccountLists

\* ------------------------------------------------ descriptor and accounts
\* the accounts whose lamports, owner and data this model tracks
DynamicKeys == {MetaListAddress(m) : m \in Mints} \cup Wallets

\* size of one ExtraAccountMeta (discriminator, 32-byte config, two flags)
EXTRA_ACCOUNT_META_SIZE == 35

\* TlvStateBorrowed::get_base_len(): type discriminator plus length field
TLV_BASE_LEN == 12

\* Rent: ACCOUNT_STORAGE_OVERHEAD
ACCOUNT_STORAGE_OVERHEAD == 128

\* Rent: lamports per byte-year times the exemption threshold of two years
LAMPORTS_PER_BYTE == 6960

\* what a wallet holds at the start: enough for three descriptors
StartLamports == 4000000

\* account data before anything is written to it
NoData == [discriminator |-> <<>>, length |-> 0, metas |-> <<>>]

\* an address at which no account exists yet
NoAccount == [lamports |-> 0, owner |-> SYSTEM_PROGRAM_ID, space |-> 0, data |-> NoData]

\* an entry built with the writable flag forced on
new_with_pubkey_writable(key, signer, writable) ==
    [discriminator |-> 0, address_config |-> key,
     is_signer |-> signer, is_writable |-> TRUE]

\* ExtraAccountMeta::new_with_pubkey(key, is_signer, is_writable)
new_with_pubkey(key, signer, writable) ==
    [discriminator |-> 0, address_config |-> key,
     is_signer |-> signer, is_writable |-> writable]

\* PodSlice::<ExtraAccountMeta>::size_of(num_items)
pod_slice_size_of(n) == LENGTH_SIZE + n * EXTRA_ACCOUNT_META_SIZE

\* a size that leaves out the slice's length prefix
size_of_without_length_prefix(n) == TLV_BASE_LEN + n * EXTRA_ACCOUNT_META_SIZE

\* ExtraAccountMetaList::size_of(num_items)
size_of(n) == TLV_BASE_LEN + pod_slice_size_of(n)

\* Rent::minimum_balance(data_len)
minimum_balance(space) == (ACCOUNT_STORAGE_OVERHEAD + space) * LAMPORTS_PER_BYTE

\* system_program::create_account without the check that `to` is unused
create_account_overwrite(s, from, to, to_signed, lamports, space, owner) ==
    IF ~to_signed THEN [err |-> "MissingRequiredSignature", store |-> s]
    ELSE IF lamports > s[from].lamports
    THEN [err |-> "ResultWithNegativeLamports", store |-> s]
    ELSE [err |-> "Ok",
          store |-> [s EXCEPT ![from].lamports = @ - lamports,
                              ![to] = [lamports |-> s[to].lamports + lamports,
                                       owner |-> owner, space |-> space,
                                       data |-> NoData]]]

\* system_program::create_account(from, to, lamports, space, owner): fails
\* when `to` already holds lamports or data or is not system-owned, when `to`
\* did not sign, and when `from` cannot pay
create_account(s, from, to, to_signed, lamports, space, owner) ==
    IF s[to].lamports > 0 THEN [err |-> "AccountAlreadyInUse", store |-> s]
    ELSE IF ~to_signed THEN [err |-> "MissingRequiredSignature", store |-> s]
    ELSE IF s[to].space > 0 \/ s[to].owner # SYSTEM_PROGRAM_ID
    THEN [err |-> "AccountAlreadyInUse", store |-> s]
    ELSE IF lamports > s[from].lamports
    THEN [err |-> "ResultWithNegativeLamports", store |-> s]
    ELSE [err |-> "Ok",
          store |-> [s EXCEPT ![from].lamports = @ - lamports,
                              ![to] = [lamports |-> lamports, owner |-> owner,
                                       space |-> space, data |-> NoData]]]

\* ExtraAccountMetaList::init::<ExecuteInstruction>(data, metas): allocates
\* the TLV entry of the Execute discriminator and writes the slice into it
extra_account_meta_list_init(account, metas) ==
    IF account.data.discriminator = EXECUTE_DISCRIMINATOR
    THEN [err |-> "TypeAlreadyExists", account |-> account]
    ELSE IF account.space < TLV_BASE_LEN + pod_slice_size_of(Len(metas))
    THEN [err |-> "InvalidAccountData", account |-> account]
    ELSE [err |-> "Ok",
          account |-> [account EXCEPT !.data =
                          [discriminator |-> EXECUTE_DISCRIMINATOR,
                           length |-> pod_slice_size_of(Len(metas)),
                           metas |-> metas]]]

\* the most entries a descriptor is sized and serialized for
MaxEntries == 3

\* Pubkey is [u8; 32]
PUBKEY_BYTES == 32

\* the keys that entries are built from; a key's 32 bytes are its position in
\* this table followed by zeros
KeyTable == <<INSTRUCTIONS_SYSVAR_ID, SYSTEM_PROGRAM_ID, TOKEN_2022_PROGRAM_ID>>

\* Pubkey::to_bytes
pubkey_to_bytes(key) ==
    [i \in 1..PUBKEY_BYTES |->
        IF i = 1 THEN CHOOSE k \in 1..Len(KeyTable) : KeyTable[k] = key ELSE 0]

\* Pubkey::try_from on a 32-byte slice
pubkey_from_bytes(b) == KeyTable[b[1]]

\* PodBool
pod_bool(flag) == IF flag THEN 1 ELSE 0

\* PodU32::from(n), little-endian
pod_u32_bytes(n) == << n % ByteBase, (n \div ByteBase) % ByteBase, 0, 0 >>

\* the bytes of one ExtraAccountMeta: discriminator, address_config, is_signer,
\* is_writable
meta_bytes(m) ==
    <<m.discriminator>> \o pubkey_to_bytes(m.address_config)
        \o <<pod_bool(m.is_signer), pod_bool(m.is_writable)>>

\* an ExtraAccountMeta read back from its bytes
meta_from_bytes(b) ==
    [discriminator |-> b[1],
     address_config |-> pubkey_from_bytes(SubSeq(b, 2, 1 + PUBKEY_BYTES)),
     is_signer |-> b[PUBKEY_BYTES + 2] # 0,
     is_writable |-> b[PUBKEY_BYTES + 3] # 0]

\* the account bytes ExtraAccountMetaList::init leaves: the TLV entry's type
\* discriminator and length, then the slice's item count and its items
serialize(data) ==
    data.discriminator \o pod_u32_bytes(data.length) \o pod_u32_bytes(Len(data.metas))
        \o [i \in 1..(Len(data.metas) * EXTRA_ACCOUNT_META_SIZE) |->
               meta_bytes(data.metas[((i - 1) \div EXTRA_ACCOUNT_META_SIZE) + 1])
                         [((i - 1) % EXTRA_ACCOUNT_META_SIZE) + 1]]

\* what an entry point leaves behind: its result, whether the caller check
\* ran and passed, what unpack produced, the calls into the native handler's
\* entry (argument bytes and accounts), the amounts the handler body ran
\* with, the steps taken, and the accounts after the call
Outcome(res, g, dec, ent, rn, tr, s) ==
    [result |-> res, guard |-> g, decoded |-> dec, entered |-> ent,
     ran |-> rn, trace |-> tr, store |-> s]

NotDecoded == [err |-> "none", tag |-> "none", amount |-> <<0, 0, 0, 0>>]

\* Accounts::try_accounts of InitializeExtraAccountMetaList
init_try_accounts(accounts) ==
    IF Len(accounts) < 6 THEN "AccountNotEnoughKeys"
    ELSE IF ~accounts[1].is_signer THEN "AccountNotSigner"
    ELSE IF StaticOwner(accounts[3].key) \notin {TOKEN_PROGRAM_ID, TOKEN_2022_PROGRAM_ID}
    THEN "AccountOwnedByWrongProgram"
    ELSE IF accounts[3].key \notin Mints THEN "AccountDidNotDeserialize"
    ELSE IF accounts[4].key \notin {TOKEN_PROGRAM_ID, TOKEN_2022_PROGRAM_ID}
    THEN "InvalidProgramId"
    ELSE IF accounts[5].key # ASSOCIATED_TOKEN_PROGRAM_ID THEN "InvalidProgramId"
    ELSE IF accounts[6].key # SYSTEM_PROGRAM_ID THEN "InvalidProgramId"
    ELSE IF ~accounts[1].is_writable THEN "ConstraintMut"
    ELSE IF accounts[2].key # find_program_address(SEED_PREFIX, accounts[3].key, ID).address
    THEN "ConstraintSeeds"
    ELSE IF ~accounts[2].is_writable THEN "ConstraintMut"
    ELSE "Ok"

\* the instruction handler initialize_extra_account_meta_list, after its
\* accounts were validated; a failure leaves the accounts as they were
initialize_extra_account_meta_list(s, accounts) ==
    LET account_metas == <<new_with_pubkey(INSTRUCTIONS_SYSVAR_ID, FALSE, FALSE)>>
        account_size == size_of(Len(account_metas))
        lamports == minimum_balance(account_size)
        mint == accounts[3].key
        bump == find_program_address(SEED_PREFIX, mint, ID).bump
        payer == accounts[1].key
        list == accounts[2].key
        signed == create_program_address(SEED_PREFIX, mint, bump, ID) = list
        created == create_account(s, payer, list, signed, lamports, account_size, ID)
        written == extra_account_meta_list_init(created.store[list], account_metas)
    IN  IF created.err # "Ok" THEN [err |-> created.err, store |-> s]
        ELSE IF written.err # "Ok" THEN [err |-> written.err, store |-> s]
        ELSE [err |-> "Ok", store |-> [created.store EXCEPT ![list] = written.account]]

\* __private::__global::initialize_extra_account_meta_list
global_initialize(s, accounts, ix_data) ==
    LET checked == init_try_accounts(accounts)
        done == initialize_extra_account_meta_list(s, accounts)
    IN  IF checked # "Ok"
        THEN Outcome(checked, "none", NotDecoded, <<>>, <<>>, <<"Received", "Rejected">>, s)
        ELSE Outcome(done.err, "none", NotDecoded, <<>>, <<>>,
                     <<"Received", IF done.err = "Ok" THEN "Approved" ELSE "Rejected">>,
                     done.store)

\* ---------------------------------------------------- the native handler
\* TransferHook validation without the seeds constraint on the descriptor
hook_try_accounts_any_descriptor(accounts) ==
    IF Len(accounts) < 6 THEN "AccountNotEnoughKeys"
    ELSE IF StaticOwner(accounts[1].key) \notin {TOKEN_PROGRAM_ID, TOKEN_2022_PROGRAM_ID}
    THEN "AccountOwnedByWrongProgram"
    ELSE IF accounts[1].key \notin TokenAccounts THEN "AccountDidNotDeserialize"
    ELSE IF StaticOwner(accounts[2].key) \notin {TOKEN_PROGRAM_ID, TOKEN_2022_PROGRAM_ID}
    THEN "AccountOwnedByWrongProgram"
    ELSE IF accounts[2].key \notin Mints THEN "AccountDidNotDeserialize"
    ELSE IF StaticOwner(accounts[3].key) \notin {TOKEN_PROGRAM_ID, TOKEN_2022_PROGRAM_ID}
    THEN "AccountOwnedByWrongProgram"
    ELSE IF accounts[3].key \notin TokenAccounts THEN "AccountDidNotDeserialize"
    ELSE IF TokenState(accounts[1].key).mint # accounts[2].key THEN "ConstraintTokenMint"
    ELSE IF TokenState(accounts[1].key).owner # accounts[4].key THEN "ConstraintTokenOwner"
    ELSE IF TokenState(accounts[3].key).mint # accounts[2].key THEN "ConstraintTokenMint"
    ELSE IF accounts[6].key # INSTRUCTIONS_SYSVAR_ID THEN "ConstraintAddress"
    ELSE "Ok"

\* TransferHook validation without token::authority = owner
hook_try_accounts_any_authority(accounts) ==
    IF Len(accounts) < 6 THEN "AccountNotEnoughKeys"
    ELSE IF StaticOwner(accounts[1].key) \notin {TOKEN_PROGRAM_ID, TOKEN_2022_PROGRAM_ID}
    THEN "AccountOwnedByWrongProgram"
    ELSE IF accounts[1].key \notin TokenAccounts THEN "AccountDidNotDeserialize"
    ELSE IF StaticOwner(accounts[2].key) \notin {TOKEN_PROGRAM_ID, TOKEN_2022_PROGRAM_ID}
    THEN "AccountOwnedByWrongProgram"
    ELSE IF accounts[2].key \notin Mints THEN "AccountDidNotDeserialize"
    ELSE IF StaticOwner(accounts[3].key) \notin {TOKEN_PROGRAM_ID, TOKEN_2022_PROGRAM_ID}
    THEN "AccountOwnedByWrongProgram"
    ELSE IF accounts[3].key \notin TokenAccounts THEN "AccountDidNotDeserialize"
    ELSE IF TokenState(accounts[1].key).mint # accounts[2].key THEN "ConstraintTokenMint"
    ELSE IF TokenState(accounts[3].key).mint # accounts[2].key THEN "ConstraintTokenMint"
    ELSE IF accounts[5].key # find_program_address(SEED_PREFIX, accounts[2].key, ID).address
    THEN "ConstraintSeeds"
    ELSE IF accounts[6].key # INSTRUCTIONS_SYSVAR_ID THEN "ConstraintAddress"
    ELSE "Ok"

\* Accounts::try_accounts of TransferHook
hook_try_accounts(accounts) ==
    IF Len(accounts) < 6 THEN "AccountNotEnoughKeys"
    ELSE IF StaticOwner(accounts[1].key) \notin {TOKEN_PROGRAM_ID, TOKEN_2022_PROGRAM_ID}
    THEN "AccountOwnedByWrongProgram"
    ELSE IF accounts[1].key \notin TokenAccounts THEN "AccountDidNotDeserialize"
    ELSE IF StaticOwner(accounts[2].key) \notin {TOKEN_PROGRAM_ID, TOKEN_2022_PROGRAM_ID}
    THEN "AccountOwnedByWrongProgram"
    ELSE IF accounts[2].key \notin Mints THEN "AccountDidNotDeserialize"
    ELSE IF StaticOwner(accounts[3].key) \notin {TOKEN_PROGRAM_ID, TOKEN_2022_PROGRAM_ID}
    THEN "AccountOwnedByWrongProgram"
    ELSE IF accounts[3].key \notin TokenAccounts THEN "AccountDidNotDeserialize"
    ELSE IF TokenState(accounts[1].key).mint # accounts[2].key THEN "ConstraintTokenMint"
    ELSE IF TokenState(accounts[1].key).owner # accounts[4].key THEN "ConstraintTokenOwner"
    ELSE IF TokenState(accounts[3].key).mint # accounts[2].key THEN "ConstraintTokenMint"
    ELSE IF accounts[5].key # find_program_address(SEED_PREFIX, accounts[2].key, ID).address
    THEN "ConstraintSeeds"
    ELSE IF accounts[6].key # INSTRUCTIONS_SYSVAR_ID THEN "ConstraintAddress"
    ELSE "Ok"

\* the instruction handler transfer_hook(ctx, amount): the stub approves
transfer_hook(accounts, amount) == "Ok"

\* AnchorDeserialize of instruction::TransferHook { amount: u64 }
deserialize_amount(ix_data) ==
    IF Len(ix_data) < 8 THEN [err |-> "InstructionDidNotDeserialize", amount |-> <<0, 0, 0, 0>>]
    ELSE [err |-> "Ok", amount |-> from_le_bytes(Take(ix_data, 8))]

\* __private::__global::transfer_hook(program_id, accounts, ix_data): decode
\* the argument, validate the accounts, run the handler.  Gives the result,
\* the amounts the handler body ran with and the steps taken after entry
global_transfer_hook(accounts, ix_data) ==
    LET args == deserialize_amount(ix_data)
        checked == hook_try_accounts(accounts)
        res == transfer_hook(accounts, args.amount)
    IN  IF args.err # "Ok" THEN [result |-> args.err, ran |-> <<>>, steps |-> <<"Rejected">>]
        ELSE IF checked # "Ok" THEN [result |-> checked, ran |-> <<>>, steps |-> <<"Rejected">>]
        ELSE [result |-> res, ran |-> <<args.amount>>,
              steps |-> <<"RuleEvaluated", IF res = "Ok" THEN "Approved" ELSE "Rejected">>]

\* the native transfer_hook instruction, reached by its own discriminator
native_transfer_hook(s, accounts, ix_data) ==
    LET h == global_transfer_hook(accounts, ix_data)
    IN  Outcome(h.result, "none", NotDecoded,
                <<[args |-> ix_data, accounts |-> accounts]>>, h.ran,
                <<"Received">> \o h.steps, s)

\* --------------------------------------------------------- the fallback
\* sysvar::instructions::load_current_index_checked
load_current_index_checked(t, info) ==
    IF info.key # INSTRUCTIONS_SYSVAR_ID THEN [err |-> "UnsupportedSysvar", index |-> 0]
    ELSE [err |-> "Ok", index |-> SysvarData(t, info.key).cur]

\* sysvar::instructions::load_instruction_at_checked
load_instruction_at_checked(index, t, info) ==
    IF info.key # INSTRUCTIONS_SYSVAR_ID
    THEN [err |-> "UnsupportedSysvar", program_id |-> "none"]
    ELSE IF index >= Len(SysvarData(t, info.key).log)
    THEN [err |-> "InvalidArgument", program_id |-> "none"]
    ELSE [err |-> "Ok", program_id |-> SysvarData(t, info.key).log[index + 1]]

\* the caller check with the index test left out
verify_caller_any_index(t, info) ==
    LET current == load_current_index_checked(t, info)
        caller_ix == load_instruction_at_checked(current.index, t, info)
    IN  IF current.err # "Ok" THEN current.err
        ELSE IF caller_ix.err # "Ok" THEN caller_ix.err
        ELSE IF caller_ix.program_id # TOKEN_2022_PROGRAM_ID THEN "UnauthorizedCaller"
        ELSE "Ok"

\* the caller check with the program id test left out
verify_caller_any_program(t, info) ==
    LET current == load_current_index_checked(t, info)
        caller_ix == load_instruction_at_checked(current.index, t, info)
    IN  IF current.err # "Ok" THEN current.err
        ELSE IF current.index = 0 THEN "UnauthorizedCaller"
        ELSE IF caller_ix.err # "Ok" THEN caller_ix.err
        ELSE "Ok"

\* the caller check reading the instruction before the current one
verify_caller_previous(t, info) ==
    LET current == load_current_index_checked(t, info)
        caller_ix == load_instruction_at_checked(current.index - 1, t, info)
    IN  IF current.err # "Ok" THEN current.err
        ELSE IF current.index = 0 THEN "UnauthorizedCaller"
        ELSE IF caller_ix.err # "Ok" THEN caller_ix.err
        ELSE IF caller_ix.program_id # TOKEN_2022_PROGRAM_ID THEN "UnauthorizedCaller"
        ELSE "Ok"

\* the caller check with the index test off by one
verify_caller_off_by_one(t, info) ==
    LET current == load_current_index_checked(t, info)
        caller_ix == load_instruction_at_checked(current.index, t, info)
    IN  IF current.err # "Ok" THEN current.err
        ELSE IF current.index <= 1 THEN "UnauthorizedCaller"
        ELSE IF caller_ix.err # "Ok" THEN caller_ix.err
        ELSE IF caller_ix.program_id # TOKEN_2022_PROGRAM_ID THEN "UnauthorizedCaller"
        ELSE "Ok"

\* the caller check reading the account's data without checking its address
verify_caller_unchecked(t, info) ==
    LET data == SysvarData(t, info.key)
    IN  IF data.cur = 0 THEN "UnauthorizedCaller"
        ELSE IF data.cur >= Len(data.log) THEN "InvalidArgument"
        ELSE IF data.log[data.cur + 1] # TOKEN_2022_PROGRAM_ID THEN "UnauthorizedCaller"
        ELSE "Ok"

\* the caller check accepting index 0 when instruction 0 is the host's
verify_caller_host_at_zero(t, info) ==
    LET current == load_current_index_checked(t, info)
        caller_ix == load_instruction_at_checked(current.index, t, info)
    IN  IF current.err # "Ok" THEN current.err
        ELSE IF caller_ix.err # "Ok" THEN caller_ix.err
        ELSE IF caller_ix.program_id # TOKEN_2022_PROGRAM_ID THEN "UnauthorizedCaller"
        ELSE "Ok"

\* "Verify we're being called via CPI and by the token program": the
\* current index must not be 0 and the instruction at that index must be
\* the Token-2022 program's
verify_caller(t, info) ==
    LET current == load_current_index_checked(t, info)
        caller_ix == load_instruction_at_checked(current.index, t, info)
    IN  IF current.err # "Ok" THEN current.err
        ELSE IF current.index = 0 THEN "UnauthorizedCaller"
        ELSE IF caller_ix.err # "Ok" THEN caller_ix.err
        ELSE IF caller_ix.program_id # TOKEN_2022_PROGRAM_ID THEN "UnauthorizedCaller"
        ELSE "Ok"

\* u32 length prefix of a PodSlice; anything above 16 bits exceeds every
\* buffer considered here
pod_u32(b) == IF b[3] = 0 /\ b[4] = 0 THEN b[1] + ByteBase * b[2] ELSE WordBase

\* PodSlice::<ExtraAccountMeta>::unpack(rest) followed by data()
pod_slice_unpack(rest) ==
    IF Len(rest) < LENGTH_SIZE THEN "BufferTooSmall"
    ELSE IF (Len(rest) - LENGTH_SIZE) % EXTRA_ACCOUNT_META_SIZE # 0 THEN "InvalidArgument"
    ELSE IF pod_u32(Take(rest, LENGTH_SIZE)) * EXTRA_ACCOUNT_META_SIZE > Len(rest) - LENGTH_SIZE
    THEN "BufferTooSmall"
    ELSE "Ok"

\* the entries account resolution reads back: the TLV value of the Execute
\* discriminator, unpacked as a PodSlice of ExtraAccountMeta
deserialize(bytes) ==
    LET value == SubSeq(bytes, TLV_BASE_LEN + 1,
                        TLV_BASE_LEN + pod_u32(SubSeq(bytes, DISCRIMINATOR_LENGTH + 1,
                                                      TLV_BASE_LEN)))
        count == pod_u32(Take(value, LENGTH_SIZE))
        items == Drop(value, LENGTH_SIZE)
    IN  [k \in 1..count |->
            meta_from_bytes(SubSeq(items, (k - 1) * EXTRA_ACCOUNT_META_SIZE + 1,
                                   k * EXTRA_ACCOUNT_META_SIZE))]

Decoded(tag, amount) == [err |-> "Ok", tag |-> tag, amount |-> amount]

DecodeError(e) == [err |-> e, tag |-> "none", amount |-> <<0, 0, 0, 0>>]

\* unpack as an interface version without the update instruction has it
unpack_without_update(data) ==
    IF Len(data) < DISCRIMINATOR_LENGTH THEN DecodeError("InvalidInstructionData")
    ELSE LET discriminator == Take(data, DISCRIMINATOR_LENGTH)
             rest == Drop(data, DISCRIMINATOR_LENGTH)
         IN  IF discriminator = EXECUTE_DISCRIMINATOR
             THEN IF Len(rest) < 8 THEN DecodeError("InvalidInstructionData")
                  ELSE Decoded("Execute", from_le_bytes(Take(rest, 8)))
             ELSE IF discriminator = INITIALIZE_DISCRIMINATOR
             THEN IF pod_slice_unpack(rest) # "Ok" THEN DecodeError(pod_slice_unpack(rest))
                  ELSE Decoded("InitializeExtraAccountMetaList", <<0, 0, 0, 0>>)
             ELSE DecodeError("InvalidInstructionData")

\* TransferHookInstruction::unpack(data)
unpack(data) ==
    IF Len(data) < DISCRIMINATOR_LENGTH THEN DecodeError("InvalidInstructionData")
    ELSE LET discriminator == Take(data, DISCRIMINATOR_LENGTH)
             rest == Drop(data, DISCRIMINATOR_LENGTH)
         IN  IF discriminator = EXECUTE_DISCRIMINATOR
             THEN IF Len(rest) < 8 THEN DecodeError("InvalidInstructionData")
                  ELSE Decoded("Execute", from_le_bytes(Take(rest, 8)))
             ELSE IF discriminator = INITIALIZE_DISCRIMINATOR
             THEN IF pod_slice_unpack(rest) # "Ok" THEN DecodeError(pod_slice_unpack(rest))
                  ELSE Decoded("InitializeExtraAccountMetaList", <<0, 0, 0, 0>>)
             ELSE IF discriminator = UPDATE_DISCRIMINATOR
             THEN IF pod_slice_unpack(rest) # "Ok" THEN DecodeError(pod_slice_unpack(rest))
                  ELSE Decoded("UpdateExtraAccountMetaList", <<0, 0, 0, 0>>)
             ELSE DecodeError("InvalidInstructionData")

\* the re-encoding of the amount with the byte order reversed
encode_amount_be(amount) ==
    << amount[1] \div ByteBase, amount[1] % ByteBase,
       amount[2] \div ByteBase, amount[2] % ByteBase,
       amount[3] \div ByteBase, amount[3] % ByteBase,
       amount[4] \div ByteBase, amount[4] % ByteBase >>

\* let amount_bytes = amount.to_le_bytes()
encode_amount(amount) == to_le_bytes(amount)

\* the match with an arm that lets every other instruction through
route_permissive(s, accounts, instruction) ==
    IF instruction.tag = "Execute"
    THEN LET h == global_transfer_hook(accounts, encode_amount(instruction.amount))
         IN  Outcome(h.result, "passed", instruction,
                     <<[args |-> encode_amount(instruction.amount), accounts |-> accounts]>>,
                     h.ran,
                     <<"Received", "ProvenanceChecked", "InstructionDecoded">> \o h.steps, s)
    ELSE Outcome("Ok", "passed", instruction, <<>>, <<>>,
                 <<"Received", "ProvenanceChecked", "InstructionDecoded", "Approved">>, s)

\* the match with an arm that serves the interface's update instruction by
\* emptying the account list stored in the fifth account
route_applying_update(s, accounts, instruction) ==
    IF instruction.tag = "Execute"
    THEN LET h == global_transfer_hook(accounts, encode_amount(instruction.amount))
         IN  Outcome(h.result, "passed", instruction,
                     <<[args |-> encode_amount(instruction.amount), accounts |-> accounts]>>,
                     h.ran,
                     <<"Received", "ProvenanceChecked", "InstructionDecoded">> \o h.steps, s)
    ELSE IF instruction.tag = "UpdateExtraAccountMetaList" /\ Len(accounts) >= 5
            /\ accounts[5].key \in DynamicKeys
    THEN Outcome("Ok", "passed", instruction, <<>>, <<>>,
                 <<"Received", "ProvenanceChecked", "InstructionDecoded", "Approved">>,
                 [s EXCEPT ![accounts[5].key].data.metas = <<>>])
    ELSE Outcome("InvalidInstruction", "passed", instruction, <<>>, <<>>,
                 <<"Received", "ProvenanceChecked", "InstructionDecoded", "Rejected">>, s)

\* match instruction { Execute { amount } => ..., _ => InvalidInstruction }
route(s, accounts, instruction) ==
    IF instruction.tag = "Execute"
    THEN LET h == global_transfer_hook(accounts, encode_amount(instruction.amount))
         IN  Outcome(h.result, "passed", instruction,
                     <<[args |-> encode_amount(instruction.amount), accounts |-> accounts]>>,
                     h.ran,
                     <<"Received", "ProvenanceChecked", "InstructionDecoded">> \o h.steps, s)
    ELSE Outcome("InvalidInstruction", "passed", instruction, <<>>, <<>>,
                 <<"Received", "ProvenanceChecked", "InstructionDecoded", "Rejected">>, s)

\* the fallback handler with the payload unpacked before the caller check
fallback_decoding_first(s, t, accounts, data) ==
    IF accounts = <<>>
    THEN Outcome("Panic", "none", NotDecoded, <<>>, <<>>, <<"Received", "Rejected">>, s)
    ELSE LET instructions_sysvar_info == accounts[Len(accounts)]
             verdict == verify_caller(t, instructions_sysvar_info)
             instruction == unpack(data)
         IN  IF instruction.err # "Ok"
             THEN Outcome(instruction.err, "none", instruction, <<>>, <<>>,
                          <<"Received", "Rejected">>, s)
             ELSE IF verdict # "Ok"
             THEN Outcome(verdict, "failed", instruction, <<>>, <<>>,
                          <<"Received", "InstructionDecoded", "Rejected">>, s)
             ELSE route(s, accounts, instruction)

\* the fallback instruction handler
fallback(s, t, accounts, data) ==
    IF accounts = <<>>
    THEN Outcome("Panic", "none", NotDecoded, <<>>, <<>>, <<"Received", "Rejected">>, s)
    ELSE LET instructions_sysvar_info == accounts[Len(accounts)]
             verdict == verify_caller(t, instructions_sysvar_info)
             instruction == unpack(data)
         IN  IF verdict # "Ok"
             THEN Outcome(verdict, "failed", NotDecoded, <<>>, <<>>,
                          <<"Received", "Rejected">>, s)
             ELSE IF instruction.err # "Ok"
             THEN Outcome(instruction.err, "passed", instruction, <<>>, <<>>,
                          <<"Received", "ProvenanceChecked", "Rejected">>, s)
             ELSE route(s, accounts, instruction)

\* ------------------------------------------------------ the state machine
VARIABLES store, pc, handler, tx, ixAccounts, ixData,
          result, guard, decoded, entered, ran, trace

vars == <<store, pc, handler, tx, ixAccounts, ixData,
          result, guard, decoded, entered, ran, trace>>

NoTx == [log |-> <<>>, cur |-> 0, chain |-> <<>>]

\* Anchor's dispatch on the first eight bytes of the instruction data;
\* whatever matches no instruction of the program goes to fallback
dispatch(data) ==
    IF Len(data) >= DISCRIMINATOR_LENGTH
       /\ Take(data, DISCRIMINATOR_LENGTH) = INITIALIZE_SIGHASH
    THEN "initialize_extra_account_meta_list"
    ELSE IF Len(data) >= DISCRIMINATOR_LENGTH
            /\ Take(data, DISCRIMINATOR_LENGTH) = TRANSFER_HOOK_SIGHASH
    THEN "transfer_hook"
    ELSE "fallback"

Init ==
    /\ store = [k \in DynamicKeys |->
                  IF k \in Wallets /\ k = "alice"
                  THEN [NoAccount EXCEPT !.lamports = StartLamports]
                  ELSE NoAccount]
    /\ pc = "idle"
    /\ handler = "none"
    /\ tx = NoTx
    /\ ixAccounts = <<>>
    /\ ixData = <<>>
    /\ result = "none"
    /\ guard = "none"
    /\ decoded = NotDecoded
    /\ entered = <<>>
    /\ ran = <<>>
    /\ trace = <<>>

\* "These accounts are provided via CPI to this program from the token2022
\* program": when Token-2022 is the immediate caller and passes the mint's
\* ExtraAccountMetaList account, it has read the list from that account to
\* build the call, which fails on an account holding no list
HostResolves(s, t, a) ==
    (/\ ImmediateCaller(t) = TOKEN_2022_PROGRAM_ID
     /\ Len(a) >= 5
     /\ a[2].key \in Mints
     /\ a[5].key = MetaListAddress(a[2].key))
        => s[a[5].key].data.discriminator = EXECUTE_DISCRIMINATOR

\* the runtime starts executing an instruction addressed to the program
BeginInstruction ==
    /\ pc = "idle"
    /\ \E t \in TxContexts, a \in AccountLists, d \in Payloads :
          /\ HostResolves(store, t, a)
          /\ tx' = t
          /\ ixAccounts' = a
          /\ ixData' = d
    /\ pc' = "entry"
    /\ UNCHANGED <<store, handler, result, guard, decoded, entered, ran, trace>>

\* the entry point ran to its end with outcome o
Finish(name, o) ==
    /\ pc' = "done"
    /\ handler' = name
    /\ store' = o.store
    /\ result' = o.result
    /\ guard' = o.guard
    /\ decoded' = o.decoded
    /\ entered' = o.entered
    /\ ran' = o.ran
    /\ trace' = o.trace
    /\ UNCHANGED <<tx, ixAccounts, ixData>>

InvokeInitialize ==
    /\ pc = "entry"
    /\ dispatch(ixData) = "initialize_extra_account_meta_list"
    /\ Finish("initialize_extra_account_meta_list",
              global_initialize(store, ixAccounts, Drop(ixData, DISCRIMINATOR_LENGTH)))

InvokeTransferHook ==
    /\ pc = "entry"
    /\ dispatch(ixData) = "transfer_hook"
    /\ Finish("transfer_hook",
              native_transfer_hook(store, ixAccounts, Drop(ixData, DISCRIMINATOR_LENGTH)))

InvokeFallback ==
    /\ pc = "entry"
    /\ dispatch(ixData) = "fallback"
    /\ Finish("fallback", fallback(store, tx, ixAccounts, ixData))

\* Anchor versions that reject data shorter than a discriminator before
\* dispatching
RejectShortData ==
    /\ pc = "entry"
    /\ Len(ixData) < DISCRIMINATOR_LENGTH
    /\ Finish("entry", Outcome("InstructionMissing", "none", NotDecoded, <<>>, <<>>,
                               <<"Received", "Rejected">>, store))

\* the instruction is over; the accounts keep what a successful call wrote
EndInstruction ==
    /\ pc = "done"
    /\ pc' = "idle"
    /\ handler' = "none"
    /\ tx' = NoTx
    /\ ixAccounts' = <<>>
    /\ ixData' = <<>>
    /\ result' = "none"
    /\ guard' = "none"
    /\ decoded' = NotDecoded
    /\ entered' = <<>>
    /\ ran' = <<>>
    /\ trace' = <<>>
    /\ UNCHANGED store

Next ==
    \/ BeginInstruction
    \/ InvokeInitialize
    \/ InvokeTransferHook
    \/ InvokeFallback
    \/ RejectShortData
    \/ EndInstruction

Spec == Init /\ [][Next]_vars

\* ------------------------------------------------------------- the claims
\* vocabulary of the claims: a finished fallback call, the account it took
\* for the instructions sysvar, and what that account reports
FallbackDone == pc = "done" /\ handler = "fallback"

LastAccount == ixAccounts[Len(ixAccounts)]

LogReadable == ixAccounts # <<>> /\ LastAccount.key = INSTRUCTIONS_SYSVAR_ID

ReportedIndex == load_current_index_checked(tx, LastAccount).index

ReportedCaller == load_instruction_at_checked(ReportedIndex, tx, LastAccount).program_id

WireTag ==
    IF Len(ixData) >= DISCRIMINATOR_LENGTH THEN Take(ixData, DISCRIMINATOR_LENGTH) ELSE <<>>

WireAmount ==
    IF Len(ixData) >= DISCRIMINATOR_LENGTH + 8
    THEN SubSeq(ixData, DISCRIMINATOR_LENGTH + 1, DISCRIMINATOR_LENGTH + 8)
    ELSE <<>>

CarriesExecute ==
    Len(ixData) >= DISCRIMINATOR_LENGTH + 8 /\ WireTag = EXECUTE_DISCRIMINATOR

Execute500 == EXECUTE_DISCRIMINATOR \o <<244, 1, 0, 0, 0, 0, 0, 0>>

\* C1: the handler body runs only in an invocation whose caller check was
\* evaluated and passed, whichever entry point was used.
C1_HandlerOnlyBehindGuard == ran # <<>> => guard = "passed"

\* C2: whenever the caller check passes, the program that directly invoked
\* the hook program is the Token-2022 program (never a top-level call, never
\* a third-party program).
C2_GuardMeansHostIsCaller ==
    guard = "passed" => ImmediateCaller(tx) = TOKEN_2022_PROGRAM_ID

\* C3: a fallback call that reads current index 0 from the instructions
\* sysvar ends in UnauthorizedCaller, whatever the payload and whatever the
\* program of instruction 0.
C3_IndexZeroRejected ==
    (FallbackDone /\ LogReadable /\ ReportedIndex = 0)
        => result = "UnauthorizedCaller" /\ ran = <<>>

C3_Witness ==
    /\ FallbackDone /\ LogReadable /\ ReportedIndex = 0
    /\ tx.log[1] = TOKEN_2022_PROGRAM_ID
    /\ CarriesExecute
    /\ result = "UnauthorizedCaller"

\* C4: a fallback call in which the instruction at the reported index is not
\* the Token-2022 program's ends in UnauthorizedCaller and the handler is
\* neither entered nor run.
C4_ForeignCallerRejected ==
    (FallbackDone /\ LogReadable /\ ReportedCaller # TOKEN_2022_PROGRAM_ID)
        => result = "UnauthorizedCaller" /\ entered = <<>> /\ ran = <<>>

C4_Witness ==
    /\ FallbackDone /\ LogReadable
    /\ ReportedIndex = 1
    /\ ReportedCaller = THIRD_PARTY_PROGRAM
    /\ tx.log[1] = TOKEN_2022_PROGRAM_ID
    /\ CarriesExecute
    /\ result = "UnauthorizedCaller"

\* C5: a fallback call with reported index above 0 whose instruction at that
\* index is the Token-2022 program's passes the caller check: it is not
\* rejected with UnauthorizedCaller and the payload is decoded.
C5_HostCallerPasses ==
    (FallbackDone /\ LogReadable /\ ReportedIndex > 0
        /\ ReportedCaller = TOKEN_2022_PROGRAM_ID)
        => guard = "passed" /\ result # "UnauthorizedCaller" /\ decoded = unpack(ixData)

C5_Witness ==
    /\ FallbackDone /\ LogReadable
    /\ ReportedIndex = 1
    /\ ReportedCaller = TOKEN_2022_PROGRAM_ID
    /\ guard = "passed"
    /\ decoded.tag = "Execute"
    /\ result = "Ok"

\* C6 as stated: in a 2-instruction transaction, a call during instruction 1
\* with Execute, amount 500 and the accounts of a transfer ends in
\* UnauthorizedCaller without the handler when instruction 0 is a
\* third-party program's.
C6_Original ==
    (FallbackDone /\ LogReadable /\ Len(tx.log) = 2 /\ tx.cur = 1
        /\ ixData = Execute500 /\ hook_try_accounts(ixAccounts) = "Ok"
        /\ tx.log[1] = THIRD_PARTY_PROGRAM)
        => result = "UnauthorizedCaller" /\ ran = <<>>

\* C6 amended: in a 2-instruction transaction, a call during instruction 1
\* with Execute and amount 500 ends in UnauthorizedCaller without the
\* handler when instruction 1, the executing one, is not the Token-2022
\* program's; the program of instruction 0 plays no part.
C6_ExecutingInstructionDecides ==
    (FallbackDone /\ LogReadable /\ Len(tx.log) = 2 /\ tx.cur = 1
        /\ ixData = Execute500 /\ tx.log[2] # TOKEN_2022_PROGRAM_ID)
        => result = "UnauthorizedCaller" /\ entered = <<>> /\ ran = <<>>

C6_Witness ==
    /\ FallbackDone /\ LogReadable /\ Len(tx.log) = 2 /\ tx.cur = 1
    /\ ixData = Execute500
    /\ tx.log = <<TOKEN_2022_PROGRAM_ID, THIRD_PARTY_PROGRAM>>
    /\ result = "UnauthorizedCaller"

\* C7: a fallback call that passed the caller check and decoded
\* Execute{amount} enters the native handler once, with the accounts it
\* received and with argument bytes equal to the eight amount bytes of the
\* payload, so the handler decodes and runs with exactly that amount
\* (500 and 1000 on the wire arrive as 500 and 1000).
C7_AmountRoundTrip ==
    (FallbackDone /\ guard = "passed" /\ CarriesExecute)
        => /\ Len(entered) = 1
           /\ entered[1].accounts = ixAccounts
           /\ entered[1].args = WireAmount
           /\ deserialize_amount(entered[1].args).amount = decoded.amount
           /\ \A i \in 1..Len(ran) : ran[i] = decoded.amount
           /\ (WireAmount = <<244, 1, 0, 0, 0, 0, 0, 0>> => decoded.amount = <<0, 0, 0, 500>>)
           /\ (WireAmount = <<232, 3, 0, 0, 0, 0, 0, 0>> => decoded.amount = <<0, 0, 0, 1000>>)

C7_Witness ==
    /\ FallbackDone /\ guard = "passed"
    /\ WireAmount = <<1, 2, 3, 4, 5, 6, 7, 8>>
    /\ ran = << <<2055, 1541, 1027, 513>> >>
    /\ result = "Ok"

\* C8 as stated: a fallback call that passed the caller check and carries
\* any tag other than Execute (another tag of the interface with a
\* well-formed body, or a tag the interface does not define) ends in
\* InvalidInstruction.
C8_Original ==
    (FallbackDone /\ guard = "passed" /\ Len(ixData) >= DISCRIMINATOR_LENGTH
        /\ WireTag # EXECUTE_DISCRIMINATOR
        /\ (WireTag \in {INITIALIZE_DISCRIMINATOR, UPDATE_DISCRIMINATOR}
              => pod_slice_unpack(Drop(ixData, DISCRIMINATOR_LENGTH)) = "Ok"))
        => result = "InvalidInstruction"

\* C8 amended: such a call fails; it ends in InvalidInstruction when the
\* payload is a well-formed instruction of another tag the interface defines
\* (initialize or update of the account list), and in the decoder's
\* InvalidInstructionData when the tag is none the interface defines.
C8_OtherTagsRejected ==
    (FallbackDone /\ guard = "passed" /\ Len(ixData) >= DISCRIMINATOR_LENGTH
        /\ WireTag # EXECUTE_DISCRIMINATOR)
        => /\ result # "Ok"
           /\ (WireTag \in {INITIALIZE_DISCRIMINATOR, UPDATE_DISCRIMINATOR}
                 /\ pod_slice_unpack(Drop(ixData, DISCRIMINATOR_LENGTH)) = "Ok"
                 => result = "InvalidInstruction")
           /\ (WireTag \notin {INITIALIZE_DISCRIMINATOR, UPDATE_DISCRIMINATOR}
                 => result = "InvalidInstructionData")

C8_Witness ==
    /\ FallbackDone /\ guard = "passed"
    /\ WireTag = UPDATE_DISCRIMINATOR
    /\ result = "InvalidInstruction"

\* C9: a fallback call whose payload does not decode to Execute (another or
\* unknown tag, truncated or malformed bytes) returns an error and neither
\* enters nor runs the handler.
C9_FailsClosed ==
    (FallbackDone /\ ~CarriesExecute)
        => result # "Ok" /\ entered = <<>> /\ ran = <<>>

C9_Witness ==
    /\ FallbackDone /\ guard = "passed"
    /\ WireTag = INITIALIZE_DISCRIMINATOR
    /\ decoded.tag = "InitializeExtraAccountMetaList"
    /\ result = "InvalidInstruction"

\* C10: an initialization aimed at an address where a descriptor was already
\* written fails (with AccountAlreadyInUse when its accounts are valid) and
\* leaves every account, the descriptor's size, entries, owner and lamports
\* included, as it was.
C10_SecondInitializationFails ==
    [][(/\ pc = "entry"
        /\ handler' = "initialize_extra_account_meta_list"
        /\ Len(ixAccounts) >= 2
        /\ ixAccounts[2].key \in DynamicKeys
        /\ store[ixAccounts[2].key].data.metas # <<>>)
       => /\ result' # "Ok"
          /\ store' = store
          /\ (init_try_accounts(ixAccounts) = "Ok" => result' = "AccountAlreadyInUse")]_vars

C10_Witness ==
    /\ pc = "done" /\ handler = "initialize_extra_account_meta_list"
    /\ init_try_accounts(ixAccounts) = "Ok"
    /\ ixAccounts[2].key = MetaListAddress("mintB")
    /\ store[MetaListAddress("mintB")].data.metas # <<>>
    /\ store[MetaListAddress("mintB")].lamports = minimum_balance(size_of(1))
    /\ result = "AccountAlreadyInUse"

\* the descriptor of a mint, and whether one was written
Descriptor(s, mint) == s[MetaListAddress(mint)]

Initialized(s, mint) == Descriptor(s, mint).data.discriminator = EXECUTE_DISCRIMINATOR

\* C11: whatever entry point is called with whatever payload, a descriptor
\* changes only in a successful initialization that takes it from absent to
\* written; once written, its owner, size, lamports and entries stay as they
\* are, and its size is the one its entry count implies.
C11_WriteOnceDescriptor ==
    [][\A m \in Mints :
        /\ Initialized(store, m) => Descriptor(store', m) = Descriptor(store, m)
        /\ Descriptor(store', m) # Descriptor(store, m)
             => /\ Descriptor(store, m) = NoAccount
                /\ handler' = "initialize_extra_account_meta_list"
                /\ result' = "Ok"
                /\ Initialized(store', m)
        /\ Initialized(store', m)
             => Descriptor(store', m).space
                  = TLV_BASE_LEN + LENGTH_SIZE
                      + Len(Descriptor(store', m).data.metas) * EXTRA_ACCOUNT_META_SIZE]_vars

C11_Witness ==
    /\ FallbackDone /\ guard = "passed"
    /\ WireTag = UPDATE_DISCRIMINATOR
    /\ Len(ixAccounts) >= 5
    /\ ixAccounts[5].key = MetaListAddress("mintA")
    /\ Initialized(store, "mintA")
    /\ Len(Descriptor(store, "mintA").data.metas) = 1

\* a hook call (native or through fallback) that named a mint and was approved
HookApproved ==
    /\ pc = "done"
    /\ handler \in {"transfer_hook", "fallback"}
    /\ result = "Ok"
    /\ ran # <<>>

\* C12: a hook call for a mint is approved only when the descriptor of that
\* mint has been written by an earlier successful initialization.
C12_ApprovedOnlyAfterInitialization ==
    HookApproved => Initialized(store, ixAccounts[2].key)

\* the step sequences a fallback call may take
OrderedTraces ==
    { <<"Received", "Rejected">>,
      <<"Received", "ProvenanceChecked", "Rejected">>,
      <<"Received", "ProvenanceChecked", "InstructionDecoded", "Rejected">>,
      <<"Received", "ProvenanceChecked", "InstructionDecoded", "RuleEvaluated", "Approved">>,
      <<"Received", "ProvenanceChecked", "InstructionDecoded", "RuleEvaluated", "Rejected">> }

BadProvenance ==
    LogReadable /\ (ReportedIndex = 0 \/ ReportedCaller # TOKEN_2022_PROGRAM_ID)

UnrecognizedTag ==
    WireTag \notin {EXECUTE_DISCRIMINATOR, INITIALIZE_DISCRIMINATOR, UPDATE_DISCRIMINATOR}

InitializationSucceeded ==
    /\ pc = "done"
    /\ handler = "initialize_extra_account_meta_list"
    /\ result = "Ok"

\* C14: a written descriptor holds exactly one entry, a fixed-address entry
\* (discriminator 0) for the instructions sysvar that is neither signer nor
\* writable; its account is owned by this program, has the 51 bytes of a
\* one-entry list and holds the rent-exempt minimum; a successful
\* initialization leaves the descriptor of its mint in that state.
C14_OneSysvarEntry ==
    /\ \A m \in Mints :
          Initialized(store, m)
             => /\ Descriptor(store, m).data.metas
                     = << [discriminator |-> 0,
                           address_config |-> INSTRUCTIONS_SYSVAR_ID,
                           is_signer |-> FALSE, is_writable |-> FALSE] >>
                /\ Descriptor(store, m).owner = ID
                /\ Descriptor(store, m).space = 51
                /\ Descriptor(store, m).lamports = (128 + 51) * 6960
    /\ InitializationSucceeded => Initialized(store, ixAccounts[3].key)

C14_Witness ==
    /\ InitializationSucceeded
    /\ ixAccounts[3].key = "mintB"
    /\ Initialized(store, "mintA")
    /\ Initialized(store, "mintB")
    /\ store["alice"].lamports = StartLamports - 2 * minimum_balance(size_of(1))

\* derive("extra-account-metas", M, canonical bump)
Derived(mint) == create_program_address(SEED_PREFIX, mint, CanonicalBump(mint), ID)

\* a call that got as far as validating the accounts of the hook
HookValidated ==
    /\ pc = "done"
    /\ \/ handler = "transfer_hook" /\ Len(ixData) >= DISCRIMINATOR_LENGTH + 8
       \/ handler = "fallback" /\ guard = "passed" /\ CarriesExecute

InitializeCalled == pc = "done" /\ handler = "initialize_extra_account_meta_list"

\* C15: initialization creates the descriptor of mint M at
\* derive("extra-account-metas", M, canonical bump) and nowhere else, the
\* hook runs only with the account at that same address as descriptor, and
\* each of the two rejects with ConstraintSeeds a call whose only fault is a
\* descriptor account at another address.
C15_OneDescriptorAddress ==
    /\ InitializationSucceeded
          => /\ ixAccounts[2].key = Derived(ixAccounts[3].key)
             /\ Initialized(store, ixAccounts[3].key)
    /\ (pc = "done" /\ ran # <<>>) => ixAccounts[5].key = Derived(ixAccounts[2].key)
    /\ (InitializeCalled /\ Len(ixAccounts) >= 3
          /\ ixAccounts[2].key # Derived(ixAccounts[3].key)
          /\ init_try_accounts([ixAccounts EXCEPT ![2].key = Derived(ixAccounts[3].key)]) = "Ok")
          => result = "ConstraintSeeds"
    /\ (HookValidated /\ Len(ixAccounts) >= 5
          /\ ixAccounts[5].key # Derived(ixAccounts[2].key)
          /\ hook_try_accounts([ixAccounts EXCEPT ![5].key = Derived(ixAccounts[2].key)]) = "Ok")
          => result = "ConstraintSeeds" /\ ran = <<>>
    /\ (HookValidated
          /\ ixAccounts = HookAccounts("aliceTokenA", "mintA", "bobTokenA", "alice",
                                       Derived("mintA"), <<INSTRUCTIONS_SYSVAR_ID>>))
          => result = "Ok"

C15_Witness ==
    /\ HookValidated /\ handler = "fallback"
    /\ Len(ixAccounts) >= 6
    /\ ixAccounts[2].key = "mintA"
    /\ ixAccounts[5].key = Derived("mintB")
    /\ Initialized(store, "mintA")
    /\ store[Derived("mintA")].owner = ID
    /\ result = "ConstraintSeeds"

\* the participants passed in a call disagree with its mint or owner
Inconsistent(a) ==
    /\ Len(a) >= 4
    /\ \/ TokenState(a[1].key).mint # a[2].key
       \/ TokenState(a[3].key).mint # a[2].key
       \/ TokenState(a[1].key).owner # a[4].key

\* C16: a hook call, native or through fallback, whose source or destination
\* token account is of another mint than the one passed, or whose source is
\* not held by the passed owner, fails without running the handler; and no
\* hook call, whatever its accounts, changes an account.
C16_ParticipantsConsistent ==
    [][(pc = "entry" /\ handler' \in {"transfer_hook", "fallback"})
        => /\ store' = store
           /\ Inconsistent(ixAccounts) => result' # "Ok" /\ ran' = <<>>
           /\ (ran' # <<>>
                 => /\ TokenState(ixAccounts[1].key).mint = ixAccounts[2].key
                    /\ TokenState(ixAccounts[3].key).mint = ixAccounts[2].key
                    /\ TokenState(ixAccounts[1].key).owner = ixAccounts[4].key)]_vars

C16_Witness ==
    /\ HookValidated
    /\ Len(ixAccounts) >= 6
    /\ TokenState(ixAccounts[1].key).mint = ixAccounts[2].key
    /\ TokenState(ixAccounts[3].key).mint = ixAccounts[2].key
    /\ TokenState(ixAccounts[1].key).owner = "alice"
    /\ ixAccounts[4].key = "bob"
    /\ result = "ConstraintTokenOwner"

\* the entries a descriptor is built from, and the lists of them
SampleMetas == {new_with_pubkey(k, sg, w) :
                  k \in {KeyTable[i] : i \in 1..Len(KeyTable)},
                  sg \in {FALSE}, w \in BOOLEAN}

EntryLists == UNION {[1..n -> SampleMetas] : n \in 0..MaxEntries}

\* a fresh account of the size initialization asks for, after init wrote the
\* entries into it
InitializedWith(metas) ==
    extra_account_meta_list_init(
        [lamports |-> minimum_balance(size_of(Len(metas))), owner |-> ID,
         space |-> size_of(Len(metas)), data |-> NoData],
        metas)

SizeRoundTrip ==
    \A metas \in EntryLists :
        LET written == InitializedWith(metas)
            bytes == serialize(written.account.data)
        IN  /\ written.err = "Ok"
            /\ Len(bytes) = size_of(Len(metas))
            /\ deserialize(bytes) = metas
            /\ size_of(Len(deserialize(bytes))) = size_of(Len(metas))

\* C17: for every list of up to MaxEntries entries, init succeeds on an
\* account of size_of(N) bytes, the record it serializes is exactly
\* size_of(N) bytes long, and the entries read back from those bytes are the
\* same N entries, hence of the same size; and every descriptor the program
\* has initialized was allocated exactly the length of its serialized record.
C17_SizeRoundTrip ==
    /\ SizeRoundTrip
    /\ \A m \in Mints :
          Initialized(store, m)
              => /\ Descriptor(store, m).space = Len(serialize(Descriptor(store, m).data))
                 /\ Descriptor(store, m).space
                        = size_of(Len(deserialize(serialize(Descriptor(store, m).data))))
                 /\ deserialize(serialize(Descriptor(store, m).data))
                        = Descriptor(store, m).data.metas

C17_Witness ==
    /\ InitializationSucceeded
    /\ Len(ixAccounts) >= 3
    /\ ixAccounts[3].key \in Mints
    /\ Initialized(store, ixAccounts[3].key)
    /\ Descriptor(store, ixAccounts[3].key).space = 51
    /\ Len(serialize(Descriptor(store, ixAccounts[3].key).data)) = 51
    /\ Len(deserialize(serialize(Descriptor(store, ixAccounts[3].key).data))) = 1

\* C18: a fallback call whose last account is not the instructions sysvar
\* ends in UnsupportedSysvar before the payload is decoded; the handler is
\* neither entered nor run, whatever the account claims to contain.
C18_ForgedLogRejected ==
    (FallbackDone /\ ixAccounts # <<>> /\ LastAccount.key # INSTRUCTIONS_SYSVAR_ID)
        => /\ result = "UnsupportedSysvar"
           /\ guard = "failed"
           /\ decoded = NotDecoded
           /\ entered = <<>>
           /\ ran = <<>>

C18_Witness ==
    /\ FallbackDone
    /\ Len(ixAccounts) >= 6
    /\ LastAccount.key = FORGED_SYSVAR
    /\ SysvarData(tx, LastAccount.key).cur = 1
    /\ SysvarData(tx, LastAccount.key).log[2] = TOKEN_2022_PROGRAM_ID
    /\ ixAccounts[5].key = MetaListAddress(ixAccounts[2].key)
    /\ CarriesExecute
    /\ result = "UnsupportedSysvar"

\* the call in progress was made by the Token-2022 program itself
HostIsCaller == ImmediateCaller(tx) = TOKEN_2022_PROGRAM_ID

\* C19: a fallback call made by the Token-2022 program while instruction 0
\* of the transaction executes ends in UnauthorizedCaller without the
\* handler, even when the transfer is instruction 0 itself and its accounts
\* are those of a valid transfer; a host call that ran the handler was made
\* during an instruction of index 1 or later.
C19_FirstInstructionRejected ==
    /\ (FallbackDone /\ LogReadable /\ HostIsCaller /\ tx.cur = 0)
          => /\ result = "UnauthorizedCaller"
             /\ guard = "failed"
             /\ entered = <<>>
             /\ ran = <<>>
    /\ (FallbackDone /\ HostIsCaller /\ ran # <<>>) => tx.cur >= 1

C19_Witness ==
    /\ FallbackDone /\ LogReadable /\ HostIsCaller
    /\ tx.cur = 0
    /\ tx.chain = <<TOKEN_2022_PROGRAM_ID>>
    /\ tx.log[1] = TOKEN_2022_PROGRAM_ID
    /\ ixData = Execute500
    /\ hook_try_accounts(ixAccounts) = "Ok"
    /\ Initialized(store, ixAccounts[2].key)
    /\ result = "UnauthorizedCaller"

====
